---- MODULE Spec2Model ----
(***************************************************************************)
(* Model of examples/quads/main.rs: the vertex-pulled quad batch renderer. *)
(* The main world holds the Quads resource; every frame it is extracted    *)
(* into the render world, prepare_quads synchronises the GpuQuads          *)
(* resource, queue_quads builds the bind groups and queues one phase item  *)
(* per marker entity and view, and QuadsPassNode runs the DrawQuads        *)
(* command tuple for every queued item.                                    *)
(***************************************************************************)
EXTENDS Integers, Sequences, FiniteSets, TLC

VARIABLES
    main_quads,       \* main world: Option<Quads> with its change tick
    main_tick,        \* main world change tick
    quads,            \* render world: Option<Res<Quads>> with its change tick
    gpu_quads,        \* render world: Option<ResMut<GpuQuads>> with its change tick
    view_bind_group,  \* render world: Option<GpuQuadsViewBindGroup>
    markers,          \* render world: number of GpuQuadsMarker entities
    phases,           \* render world: view -> Option<RenderPhase<QuadsPhaseItem>>
    commands,         \* deferred commands of the system that ran last
    tick,             \* render world change tick
    last_run,         \* last-run tick of each system
    pipeline_ready,   \* whether the queued render pipeline is available
    pass,             \* view -> commands recorded in this frame's render pass
    next_view,        \* the view whose QuadsPassNode runs next
    stdout,           \* number of "GpuQuads changed" lines printed
    next_id,          \* next fresh GPU object identity
    panicked,         \* an unwrap() failed
    pc,               \* position in the frame
    frame,            \* number of frames started
    replaces,         \* number of times the main world store was set
    synced,           \* prepare_quads took the is_changed branch in this frame
    replaced,         \* the store was set since the last extraction
    dirty             \* an extracted store has not been synchronised yet

vars == <<main_quads, main_tick, quads, gpu_quads, view_bind_group, markers,
          phases, commands, tick, last_run, pipeline_ready, pass, next_view,
          stdout, next_id, panicked, pc, frame, replaces, synced, replaced,
          dirty>>

----------------------------------------------------------------------------
(* Bounds of the model *)

MaxLen == 2         \* longest store the producer inserts
MaxFrames == 3      \* frames rendered
MaxReplaces == 2    \* times the producer sets the store
NumViews == 2       \* Camera3d views
WordBits == 7       \* width of the u32 words, scaled down

Views == 1..NumViews
Modulus == 2 ^ WordBits

----------------------------------------------------------------------------
(* Option<T> as a sequence of length at most one *)

None == <<>>
Some(x) == <<x>>
IsSome(o) == Len(o) = 1
Unwrap(o) == o[1]

U32(x) == x % Modulus

RECURSIVE BitOr(_, _)
BitOr(a, b) ==
    IF a = 0 /\ b = 0 THEN 0
    ELSE (IF a % 2 = 1 \/ b % 2 = 1 THEN 1 ELSE 0) + 2 * BitOr(a \div 2, b \div 2)

RECURSIVE BitAnd(_, _)
BitAnd(a, b) ==
    IF a = 0 \/ b = 0 THEN 0
    ELSE (IF a % 2 = 1 /\ b % 2 = 1 THEN 1 ELSE 0) + 2 * BitAnd(a \div 2, b \div 2)

----------------------------------------------------------------------------
(* Billboard, Quad, GpuQuadFlags, GpuQuad *)

Billboard == <<"None", "ViewY", "WorldY", "FixedScreenSize">>

BILLBOARD == 2 ^ 0
BILLBOARD_WORLD_Y == 2 ^ 1
BILLBOARD_FIXED_SCREEN_SIZE == 2 ^ 2

GpuQuadFlagsMutFixed(billboard) ==
    CASE billboard = "None" -> 0
      [] billboard = "ViewY" -> BILLBOARD
      [] billboard = "WorldY" -> BitOr(BILLBOARD, BILLBOARD_WORLD_Y)
      [] billboard = "FixedScreenSize" ->
            BitOr(BILLBOARD, BILLBOARD_FIXED_SCREEN_SIZE)

GpuQuadFlagsMutNoWorldY(billboard) ==
    CASE billboard = "None" -> 0
      [] billboard = "ViewY" -> BILLBOARD
      [] billboard = "WorldY" -> BILLBOARD
      [] billboard = "FixedScreenSize" -> BILLBOARD_FIXED_SCREEN_SIZE

\* the match of GpuQuad::from on quad.billboard
GpuQuadFlagsOf(billboard) ==
    CASE billboard = "None" -> 0
      [] billboard = "ViewY" -> BILLBOARD
      [] billboard = "WorldY" -> BitOr(BILLBOARD, BILLBOARD_WORLD_Y)
      [] billboard = "FixedScreenSize" -> BILLBOARD_FIXED_SCREEN_SIZE

\* impl From<&Quad> for GpuQuad; center stands for the copied float fields
GpuQuadFrom(quad) ==
    [center |-> quad.center, flags |-> U32(GpuQuadFlagsOf(quad.billboard))]

\* the reading of the flag bits by the consumer of the records (quads.wgsl):
\* bit 2 = fixed screen size, bit 0 = billboard, bit 1 = pinned to world Y
DecodeBillboard(flags) ==
    IF BitAnd(flags, BILLBOARD_FIXED_SCREEN_SIZE) # 0 THEN "FixedScreenSize"
    ELSE IF BitAnd(flags, BILLBOARD) = 0 THEN "None"
    ELSE IF BitAnd(flags, BILLBOARD_WORLD_Y) # 0 THEN "WorldY"
    ELSE "ViewY"

\* a store of k quads whose billboards cycle through the variants from the b-th
QuadsData(b, k) ==
    [i \in 1..k |-> [center |-> i, billboard |-> Billboard[((b + i - 2) % 4) + 1]]]

Stores == {QuadsData(b, k) : b \in 1..4, k \in 0..MaxLen}

----------------------------------------------------------------------------
(* Change detection: Tick::is_newer_than as used by is_changed(). A system  *)
(* runs at this_run = the world's tick, which it increments; a command is  *)
(* applied at the tick the world has reached by then.                      *)

IsNewerThanMutOwnWrite(changed, last, this_run) ==
    (this_run - last) >= (this_run - changed)

IsNewerThan(changed, last, this_run) ==
    (this_run - last) > (this_run - changed)

Systems == {"extract_resource", "prepare_quads", "queue_quads"}

----------------------------------------------------------------------------
(* GpuQuads and its StorageBuffer *)

\* impl Default for GpuQuads
GpuQuadsDefault ==
    [index_buffer |-> None,
     index_count |-> 0,
     instances |-> [array |-> <<>>, buffer |-> None],
     bind_group |-> None]

\* size in records of the encoded GpuQuadsArray: a runtime-sized array
\* occupies at least one element
ScratchSize(array) == IF Len(array) = 0 THEN 1 ELSE Len(array)

\* StorageBuffer::write_buffer: a new buffer when the old one is too small,
\* else the old one is overwritten in place
WriteBuffer(instances, id) ==
    LET size == ScratchSize(instances.array)
        capacity == IF IsSome(instances.buffer)
                    THEN Unwrap(instances.buffer).capacity ELSE 0
    IN  IF capacity < size
        THEN [instances EXCEPT !.buffer =
                 Some([id |-> id, capacity |-> size, data |-> instances.array])]
        ELSE [instances EXCEPT !.buffer =
                 Some([id |-> Unwrap(instances.buffer).id,
                       capacity |-> capacity, data |-> instances.array])]

\* the body of the loop `for i in 0..n_instances`
IndicesOfMutWinding(i) ==
    LET base == U32(i * 4)
    IN  <<U32(base + 2), U32(base + 1), base, U32(base + 1), U32(base + 3),
          U32(base + 2)>>

IndicesOfMutStride(i) ==
    LET base == U32(i * 6)
    IN  <<U32(base + 2), base, U32(base + 1), U32(base + 1), U32(base + 3),
          U32(base + 2)>>

IndicesOf(i) ==
    LET base == U32(i * 4)
    IN  <<U32(base + 2), base, U32(base + 1), U32(base + 1), U32(base + 3),
          U32(base + 2)>>

RECURSIVE IndicesLoop(_, _, _)
IndicesLoop(i, n_instances, indices) ==
    IF i >= n_instances THEN indices
    ELSE IndicesLoop(i + 1, n_instances, indices \o IndicesOf(i))

GenerateIndices(n_instances) == IndicesLoop(0, n_instances, <<>>)

\* the pushes of `for quad in quads.data.iter()`
PushQuadsMutClear(array, data) ==
    [i \in 1..Len(data) |-> GpuQuadFrom(data[i])]

PushQuads(array, data) ==
    array \o [i \in 1..Len(data) |-> GpuQuadFrom(data[i])]

\* the is_changed branch of prepare_quads applied to a GpuQuads value
Sync(g, data, id) ==
    LET array == PushQuads(g.instances.array, data)
        n_instances == Len(array)
        index_count == U32(U32(n_instances) * 6)
        indices == GenerateIndices(n_instances)
    IN  [g EXCEPT
            !.index_count = index_count,
            !.index_buffer = Some([id |-> id, contents |-> indices]),
            !.instances =
                WriteBuffer([g.instances EXCEPT !.array = array], id + 1)]

NoCommands ==
    [insert_gpu_quads |-> None, spawn_marker |-> 0, insert_view_bind_group |-> None]

----------------------------------------------------------------------------
Init ==
    /\ main_quads = None
    /\ main_tick = 1
    /\ quads = None
    /\ gpu_quads = None
    /\ view_bind_group = None
    /\ markers = 0
    /\ phases = [v \in Views |-> None]
    /\ commands = NoCommands
    /\ tick = 1
    /\ last_run = [s \in Systems |-> 0]
    /\ pipeline_ready = FALSE
    /\ pass = [v \in Views |-> <<>>]
    /\ next_view = 1
    /\ stdout = 0
    /\ next_id = 1
    /\ panicked = FALSE
    /\ pc = "extract"
    /\ frame = 0
    /\ replaces = 0
    /\ synced = FALSE
    /\ replaced = FALSE
    /\ dirty = FALSE

\* setup: commands.insert_resource(quads) in the main world
Replace(data) ==
    /\ ~panicked
    /\ replaces < MaxReplaces
    /\ replaces' = replaces + 1
    /\ main_tick' = main_tick + 1
    /\ main_quads' = Some([data |-> data, changed |-> main_tick + 1])
    /\ replaced' = TRUE
    /\ UNCHANGED <<quads, gpu_quads, view_bind_group, markers, phases, commands,
                   tick, last_run, pipeline_ready, pass, next_view, stdout,
                   next_id, panicked, pc, frame, synced, dirty>>

\* ExtractSchedule: ExtractResourcePlugin::<Quads> and extract_quads_phase,
\* with their commands applied
Extract ==
    /\ ~panicked
    /\ pc = "extract"
    /\ frame < MaxFrames
    /\ frame' = frame + 1
    /\ tick' = tick + 1
    /\ main_tick' = main_tick + 1
    /\ last_run' = [last_run EXCEPT !["extract_resource"] = main_tick]
    /\ IF IsSome(main_quads)
       THEN IF IsSome(quads)
            THEN IF IsNewerThan(Unwrap(main_quads).changed,
                                last_run["extract_resource"], main_tick)
                 THEN quads' = Some([data |-> Unwrap(main_quads).data,
                                     changed |-> tick])
                 ELSE quads' = quads
            ELSE quads' = Some([data |-> Unwrap(main_quads).data,
                                changed |-> tick + 1])
       ELSE quads' = quads
    /\ phases' = [v \in Views |-> Some(<<>>)]
    /\ pipeline_ready' \in {pipeline_ready, TRUE}
    /\ pass' = [v \in Views |-> <<>>]
    /\ synced' = FALSE
    /\ dirty' = (dirty \/ replaced)
    /\ replaced' = FALSE
    /\ pc' = "prepare"
    /\ UNCHANGED <<main_quads, gpu_quads, view_bind_group, markers, commands,
                   next_view, stdout, next_id, panicked, replaces>>

QuadsIsChangedMutAlways(this_run) == TRUE

\* quads.is_changed() in prepare_quads
QuadsIsChanged(this_run) ==
    IsNewerThan(Unwrap(quads).changed, last_run["prepare_quads"], this_run)

SpawnMarkerMutAlways(store) == 1

\* commands.spawn(GpuQuadsMarker), inside `if let Some(quads) = quads`
SpawnMarker(store) == IF IsSome(store) THEN 1 ELSE 0

SyncSourceMutMainWorld == Unwrap(main_quads).data

\* quads.data as prepare_quads reads it: the render world's extracted copy
SyncSource == Unwrap(quads).data

\* whether `n_instances as u32 * 6` exceeds the word; a build with overflow
\* checks panics there, a build without them wraps
IndexCountOverflows(n_instances) == U32(n_instances) * 6 >= Modulus

\* prepare_quads, in RenderSet::Prepare
prepare_quads ==
    /\ ~panicked
    /\ pc = "prepare"
    /\ tick' = tick + 1
    /\ last_run' = [last_run EXCEPT !["prepare_quads"] = tick]
    /\ IF IsSome(quads)
       THEN IF QuadsIsChanged(tick)
            THEN LET g == IF IsSome(gpu_quads)
                          THEN Unwrap(gpu_quads).value ELSE GpuQuadsDefault
                     n_instances == Len(PushQuads(g.instances.array, SyncSource))
                 IN  \/ /\ IF IsSome(gpu_quads)
                           THEN /\ gpu_quads' =
                                     Some([value |-> Sync(g, SyncSource, next_id),
                                           changed |-> tick])
                                /\ commands' =
                                     [NoCommands EXCEPT
                                        !.spawn_marker = SpawnMarker(quads)]
                           ELSE /\ gpu_quads' = gpu_quads
                                /\ commands' =
                                     [NoCommands EXCEPT
                                        !.insert_gpu_quads =
                                            Some(Sync(g, SyncSource, next_id)),
                                        !.spawn_marker = SpawnMarker(quads)]
                        /\ next_id' = next_id + 2
                        /\ synced' = TRUE
                        /\ dirty' = FALSE
                        /\ panicked' = FALSE
                     \/ /\ IndexCountOverflows(n_instances)
                        /\ panicked' = TRUE
                        /\ commands' = NoCommands
                        /\ UNCHANGED <<gpu_quads, next_id, synced, dirty>>
            ELSE /\ commands' = [NoCommands EXCEPT !.spawn_marker = SpawnMarker(quads)]
                 /\ UNCHANGED <<gpu_quads, next_id, synced, dirty, panicked>>
       ELSE /\ commands' = [NoCommands EXCEPT !.spawn_marker = SpawnMarker(quads)]
            /\ UNCHANGED <<gpu_quads, next_id, synced, dirty, panicked>>
    /\ pc' = "prepare_flush"
    /\ UNCHANGED <<main_quads, main_tick, quads, view_bind_group, markers, phases,
                   pipeline_ready, pass, next_view, stdout, frame, replaces,
                   replaced>>

\* RenderSet::PrepareFlush: the commands of prepare_quads are applied
PrepareFlush ==
    /\ ~panicked
    /\ pc = "prepare_flush"
    /\ gpu_quads' = IF IsSome(commands.insert_gpu_quads)
                    THEN Some([value |-> Unwrap(commands.insert_gpu_quads),
                               changed |-> tick])
                    ELSE gpu_quads
    /\ markers' = markers + commands.spawn_marker
    /\ commands' = NoCommands
    /\ pc' = "queue"
    /\ UNCHANGED <<main_quads, main_tick, quads, view_bind_group, phases, tick,
                   last_run, pipeline_ready, pass, next_view, stdout, next_id,
                   panicked, frame, replaces, synced, replaced, dirty>>

\* one QuadsPhaseItem per marker entity, in query order
RECURSIVE PhaseItems(_)
PhaseItems(n) ==
    IF n = 0 THEN <<>>
    ELSE PhaseItems(n - 1) \o
         <<[entity |-> n, draw_function |-> "DrawQuads", pipeline |-> "pipeline_id"]>>

QueuedItemsMutTwice(n) == PhaseItems(n) \o PhaseItems(n)

\* the items the loops `for entity in &entities` / `for .. in views` add to
\* one view's phase
QueuedItems(n) == PhaseItems(n)

GpuQuadsIsChangedMutNever(this_run) == FALSE

GpuQuadsIsChangedMutOnce(this_run) ==
    ~IsSome(Unwrap(gpu_quads).value.bind_group)

\* gpu_quads.is_changed() in queue_quads
GpuQuadsIsChanged(this_run) ==
    IsNewerThan(Unwrap(gpu_quads).changed, last_run["queue_quads"], this_run)

InsertViewBindGroupMutCached(id) ==
    IF IsSome(view_bind_group) THEN None ELSE Some([id |-> id])

\* commands.insert_resource(GpuQuadsViewBindGroup { .. }) with a bind group
\* created in this run
InsertViewBindGroup(id) == Some([id |-> id])

\* queue_quads, in RenderSet::Queue
queue_quads ==
    /\ ~panicked
    /\ pc = "queue"
    /\ tick' = tick + 1
    /\ last_run' = [last_run EXCEPT !["queue_quads"] = tick]
    /\ commands' = [NoCommands EXCEPT
                       !.insert_view_bind_group = InsertViewBindGroup(next_id)]
    /\ IF IsSome(gpu_quads) /\ GpuQuadsIsChanged(tick)
       THEN LET g == Unwrap(gpu_quads).value
            IN  /\ stdout' = stdout + 1
                /\ IF IsSome(g.instances.buffer)
                   THEN /\ gpu_quads' =
                             Some([value |->
                                      [g EXCEPT !.bind_group =
                                          Some([id |-> next_id + 1,
                                                buffer |-> Unwrap(g.instances.buffer).id])],
                                   changed |-> tick])
                        /\ panicked' = FALSE
                   ELSE /\ gpu_quads' = gpu_quads
                        /\ panicked' = TRUE
                /\ next_id' = next_id + 2
       ELSE /\ next_id' = next_id + 1
            /\ UNCHANGED <<gpu_quads, stdout, panicked>>
    /\ phases' = [v \in Views |->
                    IF IsSome(phases[v])
                    THEN Some(Unwrap(phases[v]) \o QueuedItems(markers))
                    ELSE None]
    /\ pc' = "queue_flush"
    /\ UNCHANGED <<main_quads, main_tick, quads, view_bind_group, markers,
                   pipeline_ready, pass, next_view, frame, replaces, synced,
                   replaced, dirty>>

\* RenderSet::QueueFlush: the commands of queue_quads are applied
QueueFlush ==
    /\ ~panicked
    /\ pc = "queue_flush"
    /\ view_bind_group' = IF IsSome(commands.insert_view_bind_group)
                          THEN commands.insert_view_bind_group
                          ELSE view_bind_group
    /\ commands' = NoCommands
    /\ next_view' = 1
    /\ pc' = "render"
    /\ UNCHANGED <<main_quads, main_tick, quads, gpu_quads, markers, phases, tick,
                   last_run, pipeline_ready, pass, stdout, next_id, panicked,
                   frame, replaces, synced, replaced, dirty>>

----------------------------------------------------------------------------
(* The render commands; a recorded command is                              *)
(* [op, slot, id, buffer, offsets, indices, instances]                     *)

Cmd(op, slot, id, buffer, offsets, indices, instances) ==
    [op |-> op, slot |-> slot, id |-> id, buffer |-> buffer, offsets |-> offsets,
     indices |-> indices, instances |-> instances]

\* the view's ViewUniformOffset component
ViewUniformOffset(v) == v - 1

Result(result, cmds) == [result |-> result, cmds |-> cmds]

\* SetItemPipeline: fails while the cached pipeline is not available
SetItemPipeline ==
    IF pipeline_ready
    THEN Result("Success", <<Cmd("set_render_pipeline", 0, 0, 0, <<>>, <<>>, <<>>)>>)
    ELSE Result("Failure", <<>>)

\* SetQuadsViewBindGroup<I>::render
SetQuadsViewBindGroup(I, v) ==
    IF IsSome(view_bind_group)
    THEN Result("Success",
                <<Cmd("set_bind_group", I, Unwrap(view_bind_group).id, 0,
                      <<ViewUniformOffset(v)>>, <<>>, <<>>)>>)
    ELSE Result("Panic", <<>>)

\* SetGpuQuadsBindGroup<I>::render
SetGpuQuadsBindGroup(I) ==
    IF IsSome(gpu_quads) /\ IsSome(Unwrap(gpu_quads).value.bind_group)
    THEN LET bind_group == Unwrap(Unwrap(gpu_quads).value.bind_group)
         IN  Result("Success",
                    <<Cmd("set_bind_group", I, bind_group.id, bind_group.buffer,
                          <<>>, <<>>, <<>>)>>)
    ELSE Result("Panic", <<>>)

\* DrawVertexPulledQuads::render
DrawVertexPulledQuads ==
    IF IsSome(gpu_quads) /\ IsSome(Unwrap(gpu_quads).value.index_buffer)
    THEN LET g == Unwrap(gpu_quads).value
         IN  Result("Success",
                    <<Cmd("set_index_buffer", 0, 0, Unwrap(g.index_buffer).id,
                          <<0>>, <<>>, <<>>),
                      Cmd("draw_indexed", 0, 0, 0, <<0>>, <<0, g.index_count>>,
                          <<0, 1>>)>>)
    ELSE Result("Panic", <<>>)

DrawQuadsMutOrder ==
    <<[command |-> "SetItemPipeline", I |-> 0],
      [command |-> "SetGpuQuadsBindGroup", I |-> 1],
      [command |-> "SetQuadsViewBindGroup", I |-> 0],
      [command |-> "DrawVertexPulledQuads", I |-> 0]>>

\* type DrawQuads = (SetItemPipeline, SetQuadsViewBindGroup<0>,
\*                   SetGpuQuadsBindGroup<1>, DrawVertexPulledQuads)
DrawQuads ==
    <<[command |-> "SetItemPipeline", I |-> 0],
      [command |-> "SetQuadsViewBindGroup", I |-> 0],
      [command |-> "SetGpuQuadsBindGroup", I |-> 1],
      [command |-> "DrawVertexPulledQuads", I |-> 0]>>

RenderCommand(c, v) ==
    CASE c.command = "SetItemPipeline" -> SetItemPipeline
      [] c.command = "SetQuadsViewBindGroup" -> SetQuadsViewBindGroup(c.I, v)
      [] c.command = "SetGpuQuadsBindGroup" -> SetGpuQuadsBindGroup(c.I)
      [] c.command = "DrawVertexPulledQuads" -> DrawVertexPulledQuads

\* a tuple of render commands runs in order and stops at the first failure
RECURSIVE RenderTuple(_, _, _, _)
RenderTuple(tuple, k, v, cmds) ==
    IF k > Len(tuple) THEN Result("Success", cmds)
    ELSE LET r == RenderCommand(tuple[k], v)
         IN  IF r.result = "Success"
             THEN RenderTuple(tuple, k + 1, v, cmds \o r.cmds)
             ELSE Result(r.result, cmds \o r.cmds)

\* RenderPhase::render: the draw function of every item, in order
RECURSIVE RenderPhase(_, _, _, _)
RenderPhase(items, k, v, cmds) ==
    IF k > Len(items) THEN Result("Success", cmds)
    ELSE LET r == RenderTuple(DrawQuads, 1, v, cmds)
         IN  IF r.result = "Panic" THEN r
             ELSE RenderPhase(items, k + 1, v, r.cmds)

\* QuadsPassNode::run for the next view
QuadsPassNode ==
    /\ ~panicked
    /\ pc = "render"
    /\ next_view <= NumViews
    /\ LET v == next_view
           r == IF IsSome(phases[v])
                THEN RenderPhase(Unwrap(phases[v]), 1, v, <<>>)
                ELSE Result("Success", <<>>)
       IN  /\ pass' = [pass EXCEPT ![v] = r.cmds]
           /\ panicked' = (r.result = "Panic")
    /\ next_view' = next_view + 1
    /\ pc' = IF next_view = NumViews THEN "cleanup" ELSE "render"
    /\ UNCHANGED <<main_quads, main_tick, quads, gpu_quads, view_bind_group,
                   markers, phases, commands, tick, last_run, pipeline_ready,
                   stdout, next_id, frame, replaces, synced, replaced, dirty>>

\* RenderSet::Cleanup: World::clear_entities drops the markers and the phases
Cleanup ==
    /\ ~panicked
    /\ pc = "cleanup"
    /\ markers' = 0
    /\ phases' = [v \in Views |-> None]
    /\ pc' = "extract"
    /\ UNCHANGED <<main_quads, main_tick, quads, gpu_quads, view_bind_group,
                   commands, tick, last_run, pipeline_ready, pass, next_view,
                   stdout, next_id, panicked, frame, replaces, synced, replaced,
                   dirty>>

Next ==
    \/ \E data \in Stores : Replace(data)
    \/ Extract
    \/ prepare_quads
    \/ PrepareFlush
    \/ queue_quads
    \/ QueueFlush
    \/ QuadsPassNode
    \/ Cleanup

Spec == Init /\ [][Next]_vars

\* stores whose quad count n_quads (the program's first argument) brings 6n
\* up to and just past the width of the index words; two of them together
\* bring 4n past it
WideStores ==
    {QuadsData(1, k) : k \in {Modulus \div 6, Modulus \div 6 + 1}}

NextWide ==
    \/ \E data \in WideStores : Replace(data)
    \/ Extract
    \/ prepare_quads
    \/ PrepareFlush
    \/ queue_quads
    \/ QueueFlush
    \/ QuadsPassNode
    \/ Cleanup

\* the program run with quad counts at the width of the index words
SpecWide == Init /\ [][NextWide]_vars

----------------------------------------------------------------------------
(* Properties *)

\* C1: immediately after each sync of prepare_quads the number of GPU quad
\* records in the instance array equals the length of the Quad Store.
C1_CountEqualsStoreLength ==
    (pc = "queue" /\ synced) =>
        Len(Unwrap(gpu_quads).value.instances.array) = Len(Unwrap(quads).data)

\* C2: when the Quad Store exists and the instance count is zero, no indexed
\* draw is recorded for any view.
C2_NoDrawWhenEmpty ==
    (IsSome(quads) /\ IsSome(gpu_quads)
        /\ Len(Unwrap(gpu_quads).value.instances.array) = 0) =>
        \A v \in Views : \A k \in DOMAIN pass[v] : pass[v][k].op # "draw_indexed"

\* C3: every view's pass of a frame is either empty or exactly: set pipeline,
\* bind the view bind group at slot 0 with the view's dynamic offset, bind the
\* quads bind group at slot 1, bind the index buffer, draw indexed; and no pass
\* holds commands before the frame's render step reaches its view.
C3_CommandOrder ==
    /\ \A v \in Views :
          \/ pass[v] = <<>>
          \/ /\ Len(pass[v]) = 5
             /\ pass[v][1].op = "set_render_pipeline"
             /\ pass[v][2].op = "set_bind_group"
             /\ pass[v][2].slot = 0
             /\ pass[v][2].id = Unwrap(view_bind_group).id
             /\ pass[v][2].offsets = <<v - 1>>
             /\ pass[v][3].op = "set_bind_group"
             /\ pass[v][3].slot = 1
             /\ pass[v][3].id = Unwrap(Unwrap(gpu_quads).value.bind_group).id
             /\ pass[v][3].offsets = <<>>
             /\ pass[v][4].op = "set_index_buffer"
             /\ pass[v][5].op = "draw_indexed"
    /\ pc \in {"prepare", "prepare_flush", "queue", "queue_flush"} =>
          \A v \in Views : pass[v] = <<>>
    /\ pc = "render" => \A v \in Views : v >= next_view => pass[v] = <<>>

C3_Witness ==
    /\ pc = "cleanup"
    /\ frame >= 2
    /\ \A v \in Views : Len(pass[v]) = 5

\* C4: the quads bind group bound by any recorded draw is the current one, was
\* built from the current instance buffer, and that buffer holds the records
\* of the most recent sync.
C4_BindingFresh ==
    \A v \in Views : \A k \in DOMAIN pass[v] :
        (pass[v][k].op = "set_bind_group" /\ pass[v][k].slot = 1) =>
            LET g == Unwrap(gpu_quads).value
            IN  /\ pass[v][k].id = Unwrap(g.bind_group).id
                /\ pass[v][k].buffer = Unwrap(g.instances.buffer).id
                /\ Unwrap(g.instances.buffer).data = g.instances.array
                /\ Unwrap(g.instances.buffer).capacity >= Len(g.instances.array)

C4_Witness ==
    /\ pc = "cleanup"
    /\ stdout >= 2
    /\ Len(pass[1]) = 5
    /\ Unwrap(Unwrap(gpu_quads).value.instances.buffer).capacity >= 2
    /\ Unwrap(Unwrap(gpu_quads).value.instances.buffer).id > 2

C6_RebuildIffSync ==
    [][LET old == IF IsSome(gpu_quads)
                  THEN Unwrap(gpu_quads).value.bind_group ELSE None
           new == IF IsSome(gpu_quads')
                  THEN Unwrap(gpu_quads').value.bind_group ELSE None
       IN  IF pc = "queue" /\ pc' = "queue_flush" /\ synced
           THEN /\ IsSome(new)
                /\ Unwrap(new).id >= next_id
                /\ Unwrap(new).buffer =
                      Unwrap(Unwrap(gpu_quads').value.instances.buffer).id
                /\ stdout' = stdout + 1
           ELSE /\ new = old
                /\ stdout' = stdout]_vars

C6_Witness ==
    /\ pc = "queue_flush"
    /\ ~synced
    /\ frame >= 3
    /\ stdout = 1
    /\ IsSome(gpu_quads)
    /\ IsSome(Unwrap(gpu_quads).value.bind_group)

\* C7: prepare_quads synchronises exactly when a store set by the producer
\* has been extracted and not synchronised yet, and after prepare_quads no
\* extracted store is left unsynchronised.
C7_SyncIffDirty ==
    [][(pc = "prepare" /\ pc' = "prepare_flush") =>
          ((synced' <=> dirty) /\ ~dirty')]_vars

C7_Witness ==
    /\ pc = "prepare_flush"
    /\ ~synced
    /\ replaces = 2
    /\ stdout = 2
    /\ ~replaced

\* C8: entries 6i+1..6i+6 of the generated index list are
\* 4i+2, 4i, 4i+1, 4i+1, 4i+3, 4i+2 for every instance i.
C8_Sextuples ==
    (IsSome(gpu_quads) /\ IsSome(Unwrap(gpu_quads).value.index_buffer)) =>
        LET g == Unwrap(gpu_quads).value
            contents == Unwrap(g.index_buffer).contents
        IN  \A i \in 0..(Len(g.instances.array) - 1) :
               /\ 6 * i + 6 <= Len(contents)
               /\ contents[6 * i + 1] = 4 * i + 2
               /\ contents[6 * i + 2] = 4 * i
               /\ contents[6 * i + 3] = 4 * i + 1
               /\ contents[6 * i + 4] = 4 * i + 1
               /\ contents[6 * i + 5] = 4 * i + 3
               /\ contents[6 * i + 6] = 4 * i + 2

C8_Witness ==
    /\ IsSome(gpu_quads)
    /\ Len(Unwrap(gpu_quads).value.instances.array) = 3
    /\ Unwrap(Unwrap(gpu_quads).value.index_buffer).contents[13] = 10

\* C9: the generated index list has 6n entries, each below 4n, for the
\* instance count n.
C9_LengthAndRange ==
    (IsSome(gpu_quads) /\ IsSome(Unwrap(gpu_quads).value.index_buffer)) =>
        LET g == Unwrap(gpu_quads).value
            contents == Unwrap(g.index_buffer).contents
            n == Len(g.instances.array)
        IN  /\ Len(contents) = 6 * n
            /\ \A k \in DOMAIN contents : contents[k] < 4 * n

C9_Witness ==
    /\ IsSome(gpu_quads)
    /\ Len(Unwrap(gpu_quads).value.instances.array) = 4
    /\ Len(Unwrap(Unwrap(gpu_quads).value.index_buffer).contents) = 24

\* C10: the records a sync appends carry the flags None -> 0, ViewY -> 1,
\* WorldY -> 3, FixedScreenSize -> 4 of the store's quads, in store order.
C10_FlagTable ==
    (pc = "queue" /\ synced) =>
        LET array == Unwrap(gpu_quads).value.instances.array
            data == Unwrap(quads).data
            m == Len(array) - Len(data)
        IN  /\ m >= 0
            /\ \A i \in DOMAIN data :
                  array[m + i].flags =
                     CASE data[i].billboard = "None" -> 0
                       [] data[i].billboard = "ViewY" -> 1
                       [] data[i].billboard = "WorldY" -> 3
                       [] data[i].billboard = "FixedScreenSize" -> 4

C10_Witness ==
    /\ pc = "queue"
    /\ synced
    /\ {Unwrap(gpu_quads).value.instances.array[i].flags :
           i \in DOMAIN Unwrap(gpu_quads).value.instances.array} = {0, 1, 3, 4}

\* C11: decoding the flag bits of every record a sync appends gives back the
\* billboard variant of the store's quad at the same position.
C11_RoundTrip ==
    (pc = "queue" /\ synced) =>
        LET array == Unwrap(gpu_quads).value.instances.array
            data == Unwrap(quads).data
            m == Len(array) - Len(data)
        IN  \A i \in DOMAIN data :
               DecodeBillboard(array[m + i].flags) = data[i].billboard

C11_Witness ==
    /\ pc = "queue"
    /\ synced
    /\ Len(Unwrap(quads).data) = 2
    /\ Unwrap(quads).data[1].billboard = "FixedScreenSize"
    /\ Unwrap(quads).data[2].billboard = "None"
    /\ Len(Unwrap(gpu_quads).value.instances.array) = 4
    /\ DecodeBillboard(Unwrap(gpu_quads).value.instances.array[3].flags) =
          "FixedScreenSize"

\* C12: every run of queue_quads queues the insertion of a view bind group
\* created in that run, whatever the state of the Quad Store, and the view
\* bind group in place after the flush is that new object, never the one of
\* the frame before.
C12_ViewBindingRebuilt ==
    [][/\ (pc = "queue" /\ pc' = "queue_flush") =>
             /\ IsSome(commands'.insert_view_bind_group)
             /\ Unwrap(commands'.insert_view_bind_group).id >= next_id
       /\ (pc = "queue_flush" /\ pc' = "render") =>
             /\ IsSome(view_bind_group')
             /\ view_bind_group' = commands.insert_view_bind_group
             /\ IsSome(view_bind_group) =>
                   Unwrap(view_bind_group').id > Unwrap(view_bind_group).id]_vars

C12_Witness ==
    /\ pc = "render"
    /\ frame = 2
    /\ ~IsSome(quads)
    /\ Unwrap(view_bind_group).id = 2

\* C13: a run of prepare_quads with no unsynchronised store leaves GpuQuads
\* untouched and queues no insertion, and the instance records, the instance
\* buffer, the index buffer and index_count change only in a frame in which
\* prepare_quads synchronised.
C13_UnchangedWithoutSync ==
    [][LET old == IF IsSome(gpu_quads)
                  THEN <<Unwrap(gpu_quads).value.instances,
                         Unwrap(gpu_quads).value.index_buffer,
                         Unwrap(gpu_quads).value.index_count>>
                  ELSE <<>>
           new == IF IsSome(gpu_quads')
                  THEN <<Unwrap(gpu_quads').value.instances,
                         Unwrap(gpu_quads').value.index_buffer,
                         Unwrap(gpu_quads').value.index_count>>
                  ELSE <<>>
       IN  /\ (pc = "prepare" /\ pc' = "prepare_flush" /\ ~dirty) =>
                 /\ gpu_quads' = gpu_quads
                 /\ commands'.insert_gpu_quads = None
           /\ new # old => synced']_vars

C13_Witness ==
    /\ pc = "prepare_flush"
    /\ ~synced
    /\ frame = 3
    /\ replaced
    /\ IsSome(gpu_quads)
    /\ Len(Unwrap(gpu_quads).value.instances.array) = 2
    /\ commands.insert_gpu_quads = None

\* C14: while the render world holds no Quad Store there is no sync, no
\* GpuQuads, no marker entity spawned or queued to spawn, no phase item in any
\* view's phase and no command in any view's pass.
C14_NothingWithoutStore ==
    ~IsSome(quads) =>
        /\ ~synced
        /\ ~IsSome(gpu_quads)
        /\ commands.insert_gpu_quads = None
        /\ commands.spawn_marker = 0
        /\ markers = 0
        /\ \A v \in Views :
              /\ IsSome(phases[v]) => Unwrap(phases[v]) = <<>>
              /\ pass[v] = <<>>

C14_Witness ==
    /\ pc = "cleanup"
    /\ frame = 2
    /\ ~IsSome(quads)
    /\ pipeline_ready
    /\ \A v \in Views : IsSome(phases[v])

\* C15: a sync appends the encodings of the store's quads, in store order, to
\* the instance records it found, and no other step changes the records.
C15_AppendOnly ==
    [][LET old == IF IsSome(gpu_quads)
                  THEN Unwrap(gpu_quads).value.instances.array
                  ELSE IF IsSome(commands.insert_gpu_quads)
                       THEN Unwrap(commands.insert_gpu_quads).instances.array
                       ELSE <<>>
           new == IF IsSome(gpu_quads')
                  THEN Unwrap(gpu_quads').value.instances.array
                  ELSE IF IsSome(commands'.insert_gpu_quads)
                       THEN Unwrap(commands'.insert_gpu_quads).instances.array
                       ELSE <<>>
           data == Unwrap(quads).data
       IN  IF pc = "prepare" /\ pc' = "prepare_flush" /\ synced'
           THEN new = old \o
                   [i \in 1..Len(data) |->
                      [center |-> data[i].center,
                       flags |-> CASE data[i].billboard = "None" -> 0
                                   [] data[i].billboard = "ViewY" -> 1
                                   [] data[i].billboard = "WorldY" -> 3
                                   [] data[i].billboard = "FixedScreenSize" -> 4]]
           ELSE new = old]_vars

C15_Witness ==
    /\ pc = "queue"
    /\ synced
    /\ Len(Unwrap(quads).data) = 1
    /\ Len(Unwrap(gpu_quads).value.instances.array) = 3

\* C16: no unwrap fails, and whenever a view's phase holds an item to draw the
\* GpuQuads resource exists with its bind group and its index buffer present.
C16_UnwrapsNeverFail ==
    /\ ~panicked
    /\ \A v \in Views :
          (pc \in {"queue_flush", "render"} /\ IsSome(phases[v])
              /\ Len(Unwrap(phases[v])) > 0) =>
             /\ IsSome(gpu_quads)
             /\ IsSome(Unwrap(gpu_quads).value.bind_group)
             /\ IsSome(Unwrap(gpu_quads).value.index_buffer)

C16_Witness ==
    /\ pc = "cleanup"
    /\ ~synced
    /\ ~panicked
    /\ frame = 3
    /\ stdout = 1
    /\ \A v \in Views : Len(pass[v]) = 5

\* C17: the stored index_count equals the number of entries written to the
\* index buffer, and the base of every instance i is 4i, not wrapped.
C17_IndexCountExact ==
    (IsSome(gpu_quads) /\ IsSome(Unwrap(gpu_quads).value.index_buffer)) =>
        LET g == Unwrap(gpu_quads).value
            contents == Unwrap(g.index_buffer).contents
        IN  /\ g.index_count = Len(contents)
            /\ \A i \in 0..(Len(g.instances.array) - 1) : contents[6 * i + 2] = 4 * i

\* C18: the producer setting the main world store changes nothing in the
\* render world; the render world's store changes only at extraction, where it
\* becomes the whole value the main world holds then; and the records one sync
\* appends are the encodings of that one extracted value, position by position,
\* whatever the producer has set since.
C18_Snapshot ==
    [][/\ main_quads' # main_quads =>
             /\ quads' = quads
             /\ gpu_quads' = gpu_quads
             /\ commands' = commands
       /\ quads' # quads =>
             /\ pc = "extract"
             /\ Unwrap(quads').data = Unwrap(main_quads).data
       /\ (pc = "prepare" /\ pc' = "prepare_flush" /\ synced') =>
             LET old == IF IsSome(gpu_quads)
                        THEN Unwrap(gpu_quads).value.instances.array ELSE <<>>
                 new == IF IsSome(gpu_quads)
                        THEN Unwrap(gpu_quads').value.instances.array
                        ELSE Unwrap(commands'.insert_gpu_quads).instances.array
                 snapshot == Unwrap(quads).data
             IN  /\ Len(new) = Len(old) + Len(snapshot)
                 /\ \A i \in DOMAIN snapshot :
                       /\ new[Len(old) + i].center = snapshot[i].center
                       /\ DecodeBillboard(new[Len(old) + i].flags) =
                             snapshot[i].billboard]_vars

C18_Witness ==
    /\ pc = "prepare_flush"
    /\ synced
    /\ replaced
    /\ Len(Unwrap(quads).data) = 2
    /\ Len(Unwrap(main_quads).data) = 2
    /\ Unwrap(main_quads).data # Unwrap(quads).data
    /\ IsSome(commands.insert_gpu_quads)
    /\ Len(Unwrap(commands.insert_gpu_quads).instances.array) = 2

====
